---- MODULE Spec2Model ----
(***************************************************************************)
(* Model of archives/20251108-django-migration:                            *)
(*   migrate_artworks.py  - schema-driven record migration (main, the      *)
(*                          column mapper, the batched streamer and the    *)
(*                          conflict-aware upsert);                        *)
(*   migrate_images.py    - the per-asset download / upload pipeline.      *)
(*                                                                         *)
(* Strings are sequences of one-character strings, so that str.strip and   *)
(* str.split are computed and not assumed.                                 *)
(***************************************************************************)
EXTENDS Integers, Sequences, FiniteSets, TLC

---------------------------------------------------------------------------
(* Bounds of the model *)

\* longest explicit column map (number of entries) drawn for the mapper
MaxExplicit == 2
\* most rows the source table holds
MaxRows == 3
\* largest --batch-size drawn
MaxBatch == 2
\* most changes made to source rows between the two runs
MaxEdits == 1
\* most rows query_images yields
MaxAssets == 3

---------------------------------------------------------------------------
(* Strings *)

Range(s) == {s[i] : i \in 1..Len(s)}

ID == <<"i", "d">>
ColA == <<"a">>
ColB == <<"b">>
ColC == <<"c">>
ColX == <<"x">>

IsSpace(ch) == ch = " "

RECURSIVE LStrip(_)
LStrip(s) == IF s # <<>> /\ IsSpace(Head(s)) THEN LStrip(Tail(s)) ELSE s

RECURSIVE RStrip(_)
RStrip(s) ==
    IF s # <<>> /\ IsSpace(s[Len(s)]) THEN RStrip(SubSeq(s, 1, Len(s) - 1)) ELSE s

\* str.strip()
Strip(s) == RStrip(LStrip(s))

\* str.split(","): the pieces between separators, empty pieces kept
RECURSIVE SplitFrom(_, _, _)
SplitFrom(s, cur, acc) ==
    IF s = <<>> THEN Append(acc, cur)
    ELSE IF Head(s) = "," THEN SplitFrom(Tail(s), <<>>, Append(acc, cur))
    ELSE SplitFrom(Tail(s), Append(cur, Head(s)), acc)

Split(s) == SplitFrom(s, <<>>, <<>>)

\* main: exclude_columns = [c.strip() for c in arg.split(",")] if arg else []
ExcludeColumns(arg) ==
    IF arg = <<>> THEN <<>>
    ELSE [i \in 1..Len(Split(arg)) |-> Strip(Split(arg)[i])]

---------------------------------------------------------------------------
(* Column mapper.  A dict is a sequence of [src, dst] entries with distinct
   src, in insertion order. *)

Keys(m) == {m[i].src : i \in 1..Len(m)}
KeyList(m) == [i \in 1..Len(m) |-> m[i].src]
Values(m) == {m[i].dst : i \in 1..Len(m)}
Get(m, s) == (CHOOSE i \in 1..Len(m) : m[i].src = s)
Lookup(m, s) == m[Get(m, s)].dst

\* mapping[src] = dst
Put(m, s, d) ==
    IF s \in Keys(m)
    THEN [i \in 1..Len(m) |-> IF m[i].src = s THEN [src |-> s, dst |-> d] ELSE m[i]]
    ELSE Append(m, [src |-> s, dst |-> d])

\* build_mapping: exclude_set = {c.strip() for c in excludes if c and c.strip()}
ExcludeSet(excludes) ==
    {Strip(excludes[i]) : i \in {j \in 1..Len(excludes) :
                                   excludes[j] # <<>> /\ Strip(excludes[j]) # <<>>}}

\* build_mapping, explicit loop: "if src in exclude_set: continue"
ExplicitExcluded(src, exclude_set) == src \in exclude_set

\* mutant: the explicit loop without its destination check
ExplicitMappable_Unchecked(dst, dest_set) == TRUE

\* build_mapping, explicit loop: "if dst in dest_set"
ExplicitMappable(dst, dest_set) == dst \in dest_set

\* build_mapping: the loop over explicit_map.items()
RECURSIVE ExplicitLoop(_, _, _, _)
ExplicitLoop(explicit, exclude_set, dest_set, m) ==
    IF explicit = <<>> THEN m
    ELSE LET e == Head(explicit) IN
         IF ExplicitExcluded(e.src, exclude_set)
         THEN ExplicitLoop(Tail(explicit), exclude_set, dest_set, m)
         ELSE IF ExplicitMappable(e.dst, dest_set)
         THEN ExplicitLoop(Tail(explicit), exclude_set, dest_set, Put(m, e.src, e.dst))
         ELSE ExplicitLoop(Tail(explicit), exclude_set, dest_set, m)

\* mutant: the same-name loop without its exclusion check
SameNameExcluded_Never(src, exclude_set) == FALSE

\* build_mapping, same-name loop: "if src in exclude_set: continue"
SameNameExcluded(src, exclude_set) == src \in exclude_set

\* build_mapping, same-name loop: "if src in dest_set"
SameNameMappable(src, dest_set) == src \in dest_set

\* build_mapping: the loop over source_columns
RECURSIVE SameNameLoop(_, _, _, _)
SameNameLoop(cols, exclude_set, dest_set, m) ==
    IF cols = <<>> THEN m
    ELSE LET s == Head(cols) IN
         IF s \in Keys(m) THEN SameNameLoop(Tail(cols), exclude_set, dest_set, m)
         ELSE IF SameNameExcluded(s, exclude_set)
         THEN SameNameLoop(Tail(cols), exclude_set, dest_set, m)
         ELSE IF SameNameMappable(s, dest_set)
         THEN SameNameLoop(Tail(cols), exclude_set, dest_set, Put(m, s, s))
         ELSE SameNameLoop(Tail(cols), exclude_set, dest_set, m)

build_mapping(source_cols, dest_cols, explicit, excludes) ==
    SameNameLoop(source_cols, ExcludeSet(excludes), Range(dest_cols),
                 ExplicitLoop(explicit, ExcludeSet(excludes), Range(dest_cols), <<>>))

\* mutant: main without the forced id column
ForceIdColumn_Absent(m, idc, src_cols, dst_cols) == m

\* main: the id column is added when build_mapping left it out
ForceIdColumn(m, idc, src_cols, dst_cols) ==
    IF idc \notin Keys(m) /\ idc \in Range(src_cols) /\ idc \in Range(dst_cols)
    THEN Put(m, idc, idc)
    ELSE m

\* main: missing_in_dest = [s for s, d in mapping.items() if d not in dst_columns]
MissingInDest(m, dst_cols) ==
    SelectSeq(KeyList(m), LAMBDA s : Lookup(m, s) \notin Range(dst_cols))

---------------------------------------------------------------------------
(* Tables.  A value records the column and the row it was read from and the
   version of the source row, so that a destination cell tells where its
   content came from. *)

NULL == [col |-> <<>>, n |-> 0, ver |-> 0]
IdVal(i) == [col |-> ID, n |-> i, ver |-> 0]
OldVal(i) == [col |-> <<"o", "l", "d">>, n |-> i, ver |-> 0]

\* the source and destination tables of the migration runs
SrcSchema == <<ID, ColA, ColB>>
DstSchema == <<ID, ColA, ColC>>
\* fetch_primary_key_columns(dst_conn, dest_table)
PkColumns == <<ID>>

\* r.get(s) for a row of the source cursor (dict_row)
Field(r, s) == IF s = ID THEN IdVal(r.id) ELSE [col |-> s, n |-> r.id, ver |-> r.ver]

\* a row the destination held before the first run
PriorRow(i) == [c \in Range(DstSchema) |-> IF c = ID THEN IdVal(i) ELSE OldVal(i)]

\* main: conflict_target = [args.id_column] if args.id_column else (pk_columns or ["id"])
ConflictTarget(idc, pk) ==
    IF idc # <<>> THEN <<idc>> ELSE IF pk # <<>> THEN pk ELSE <<ID>>

NoDuplicates(s) == \A i, j \in 1..Len(s) : s[i] = s[j] => i = j

\* upsert_rows: dst_cols = [mapping[s] for s in src_cols]
DstCols(m) == [i \in 1..Len(m) |-> m[i].dst]

\* upsert_rows: tuple(_adapt_value(r.get(s)) for s in src_cols)
RowValues(m, r) == [i \in 1..Len(m) |-> Field(r, m[i].src)]

\* the row an insert of (dst_cols) values (vals) builds: columns not listed are NULL
NewRow(dst_cols, vals) ==
    [c \in Range(DstSchema) |->
        IF c \in Range(dst_cols)
        THEN vals[CHOOSE i \in 1..Len(dst_cols) : dst_cols[i] = c]
        ELSE NULL]

SameKey(r1, r2, target) == \A c \in Range(target) : r1[c] = r2[c]

\* mutant: an update that merges, filling only the columns that were NULL
UpdateRow_Merge(old, new, dst_cols, target) ==
    [c \in Range(DstSchema) |->
        IF c \in Range(dst_cols) /\ c \notin Range(target) /\ old[c] = NULL
        THEN new[c] ELSE old[c]]

\* "on conflict (...) do update set c = EXCLUDED.c" for c in dst_cols if c not in conflict_target
UpdateRow(old, new, dst_cols, target) ==
    [c \in Range(DstSchema) |->
        IF c \in Range(dst_cols) /\ c \notin Range(target) THEN new[c] ELSE old[c]]

\* the statement upsert_rows builds is one the destination accepts
StatementOk(dst_cols, on_conflict, target) ==
    /\ dst_cols # <<>>
    /\ NoDuplicates(dst_cols)
    /\ Range(dst_cols) \subseteq Range(DstSchema)
    /\ on_conflict \in {"skip", "update"} => Range(target) = Range(PkColumns)
    /\ on_conflict = "update" => \E c \in Range(dst_cols) : c \notin Range(target)

\* mutant: the insert without its conflict clause and without a unique index
InsertRow_Append(tbl, dst_cols, vals, on_conflict, target) ==
    [tbl |-> Append(tbl, NewRow(dst_cols, vals)), ok |-> TRUE]

\* one execution of the insert statement built by upsert_rows, for one row
InsertRow(tbl, dst_cols, vals, on_conflict, target) ==
    LET new == NewRow(dst_cols, vals)
        hit == {i \in 1..Len(tbl) : SameKey(tbl[i], new, PkColumns)}
    IN  IF \E c \in Range(PkColumns) : new[c] = NULL
        THEN [tbl |-> tbl, ok |-> FALSE]
        ELSE IF hit = {} THEN [tbl |-> Append(tbl, new), ok |-> TRUE]
        ELSE IF on_conflict = "skip" THEN [tbl |-> tbl, ok |-> TRUE]
        ELSE IF on_conflict = "update"
        THEN [tbl |-> [i \in 1..Len(tbl) |->
                          IF i \in hit THEN UpdateRow(tbl[i], new, dst_cols, target)
                          ELSE tbl[i]],
              ok |-> TRUE]
        ELSE [tbl |-> tbl, ok |-> FALSE]

\* cur.executemany(sql, values): the rows in order, stopping at the first error
RECURSIVE ExecuteMany(_, _, _, _, _)
ExecuteMany(tbl, m, rows, on_conflict, target) ==
    IF rows = <<>> THEN [tbl |-> tbl, ok |-> TRUE]
    ELSE LET r == InsertRow(tbl, DstCols(m), RowValues(m, Head(rows)), on_conflict, target)
         IN  IF r.ok THEN ExecuteMany(r.tbl, m, Tail(rows), on_conflict, target)
             ELSE r

\* mutant: upsert_rows without the dry_run return
upsert_rows_Wet(tbl, m, rows, on_conflict, target, dry_run) ==
    IF rows = <<>> THEN [tbl |-> tbl, ok |-> TRUE, ret |-> <<0, 0>>, exec |-> 0]
    ELSE LET r == ExecuteMany(tbl, m, rows, on_conflict, target)
         IN  [tbl |-> r.tbl, ok |-> r.ok,
              ret |-> IF r.ok THEN <<Len(rows), 0>> ELSE <<0, 0>>, exec |-> 1]

\* upsert_rows: what it returns and what it does to the destination session
upsert_rows(tbl, m, rows, on_conflict, target, dry_run) ==
    IF rows = <<>> THEN [tbl |-> tbl, ok |-> TRUE, ret |-> <<0, 0>>, exec |-> 0]
    ELSE IF dry_run THEN [tbl |-> tbl, ok |-> TRUE, ret |-> <<0, 0>>, exec |-> 0]
    ELSE IF ~StatementOk(DstCols(m), on_conflict, target)
    THEN [tbl |-> tbl, ok |-> FALSE, ret |-> <<0, 0>>, exec |-> 1]
    ELSE LET r == ExecuteMany(tbl, m, rows, on_conflict, target)
         IN  [tbl |-> r.tbl, ok |-> r.ok,
              ret |-> IF r.ok THEN <<Len(rows), 0>> ELSE <<0, 0>>, exec |-> 1]

\* mutant: a fetch that hands out every row left (fetchall)
FetchMany_All(tbl, pos, size) == SubSeq(tbl, pos + 1, Len(tbl))

\* mutant: a fetch that hands out one row more than asked for
FetchMany_OneMore(tbl, pos, size) ==
    SubSeq(tbl, pos + 1, IF pos + size + 1 <= Len(tbl) THEN pos + size + 1 ELSE Len(tbl))

\* cur.fetchmany(batch_size) on the server-side cursor at position pos
FetchMany(tbl, pos, size) ==
    SubSeq(tbl, pos + 1, IF pos + size <= Len(tbl) THEN pos + size ELSE Len(tbl))

\* mutant: a rollback that also undoes what the loop committed
Rollback_Everything(working, committed) == <<>>

\* mutant: a connection that keeps (and later commits) what a failed block wrote
Rollback_Keep(working, committed) == working

\* connection context manager: rollback when the block raised
Rollback(working, committed) == committed

\* mutant: a commit that makes nothing durable
Commit_Nothing(working, committed) == committed

\* dst_conn.commit()
Commit(working, committed) == working

---------------------------------------------------------------------------
(* State of a migrate_artworks.py process and of the two databases *)

VARIABLES
    src_catalog,      \* information_schema columns of the source table
    dst_catalog,      \* information_schema columns of the destination table
    src_table,        \* rows of the source table, in cursor order
    dst_table,        \* destination table as seen by dst_conn's open transaction
    dst_committed,    \* destination table as committed
    args,             \* argparse.Namespace of the current run
    pc,               \* position of main
    run,              \* 0 before the first run, 1 in and after it, 2 for the re-run
    n_edits,          \* changes made to source rows so far
    src_columns, dst_columns, conflict_target,
    mapping, missing_in_dest,
    cursor,           \* rows the server-side cursor has handed out
    batch,            \* the batch the for loop holds
    migrated, would_migrate,
    ret,              \* what the last upsert_rows call returned
    reported,         \* the count main printed at the end
    n_exec,           \* executemany calls issued on dst_conn in this run
    n_commit,         \* dst_conn.commit() calls of the loop in this run
    batches,          \* the batches select_source_rows yielded in this run
    dst_at_start,     \* dst_committed when this run began
    dst_before_batch, \* dst_committed when the current batch was fetched
    full_done,        \* the last run to end was not a dry run and completed, and
                      \* the source was not changed since
    prev_full         \* full_done as it was when this run began

art_vars == <<src_catalog, dst_catalog, src_table, n_edits, dst_table, dst_committed, args, pc,
              run, src_columns, dst_columns, conflict_target, mapping, missing_in_dest,
              cursor, batch, migrated, would_migrate, ret, reported, n_exec, n_commit,
              batches, dst_at_start, dst_before_batch, full_done, prev_full>>


NoArgs == [exclude_columns |-> <<>>, column_map |-> <<>>, id_column |-> ID,
           batch_size |-> 1, on_conflict |-> "skip", dry_run |-> FALSE]

Policies == {"skip", "update", "error"}

ArtInit(src_cat, dst_cat, rows, prior) ==
    /\ src_catalog = src_cat
    /\ dst_catalog = dst_cat
    /\ src_table = rows
    /\ dst_table = prior
    /\ dst_committed = prior
    /\ args = NoArgs
    /\ pc = "start"
    /\ run = 0
    /\ n_edits = 0
    /\ src_columns = <<>>
    /\ dst_columns = <<>>
    /\ conflict_target = <<>>
    /\ mapping = <<>>
    /\ missing_in_dest = <<>>
    /\ cursor = 0
    /\ batch = <<>>
    /\ migrated = 0
    /\ would_migrate = 0
    /\ ret = <<0, 0>>
    /\ reported = 0
    /\ n_exec = 0
    /\ n_commit = 0
    /\ batches = <<>>
    /\ dst_at_start = prior
    /\ dst_before_batch = prior
    /\ full_done = FALSE
    /\ prev_full = FALSE

---------------------------------------------------------------------------
(* migrate_images.py: state of a process, of the local save directory and of
   the destination endpoint.  Asset k is the k-th row query_images yields
   (ordered by id); every asset has its own image_path. *)

VARIABLES
    img_rows,          \* the rows query_images yields, in order
    local_file,        \* local_file[k]: a file exists at asset k's local_path
    made_dirs,         \* assets whose directory os.makedirs was called for
    received,          \* received[k]: uploads of asset k the endpoint accepted
    img_args,          \* argparse.Namespace of the current run
    img_pc,            \* position of main
    img_run,           \* 0 before the first run, 1 in and after it, 2 for the re-run
    img_i,             \* index of the row the for loop holds
    total, downloaded, uploaded, skipped_download,
    fetch_calls,       \* assets a fetch curl process was run for, in this run
    upload_calls,      \* assets an upload curl process was run for, in this run
    removed,           \* assets whose local file this run removed
    did_skip,          \* assets whose download this run skipped
    did_download,      \* assets whose download_image call returned in this run
    did_upload,        \* assets whose upload_image call returned in this run
    did_fail,          \* assets whose processing ended in the except clause
    local_at_start     \* local_file when this run began

img_vars == <<img_rows, local_file, made_dirs, received, img_args, img_pc, img_run,
              img_i, total, downloaded, uploaded, skipped_download, fetch_calls,
              upload_calls, removed, did_skip, did_download, did_upload, did_fail,
              local_at_start>>

vars == <<art_vars, img_vars>>

---------------------------------------------------------------------------
(* main of migrate_artworks.py, one action per step *)

\* parse_args and the start of main: a new process with arguments drawn from
\* Choices.  The re-run is given the column map, the exclusions and the batch
\* size of the first run; its conflict policy and its dry-run flag are free.
main_parse(Choices) ==
    /\ pc \in {"start", "done", "aborted"}
    /\ run \in {0, 1}
    /\ \E a \in Choices :
          /\ run = 1 => /\ a.column_map = args.column_map
                        /\ a.exclude_columns = args.exclude_columns
                        /\ a.batch_size = args.batch_size
          /\ args' = a
    /\ run' = run + 1
    /\ pc' = "columns"
    /\ prev_full' = full_done
    /\ dst_at_start' = dst_committed
    /\ dst_before_batch' = dst_committed
    /\ src_columns' = <<>>
    /\ dst_columns' = <<>>
    /\ conflict_target' = <<>>
    /\ mapping' = <<>>
    /\ missing_in_dest' = <<>>
    /\ cursor' = 0
    /\ batch' = <<>>
    /\ migrated' = 0
    /\ would_migrate' = 0
    /\ ret' = <<0, 0>>
    /\ reported' = 0
    /\ n_exec' = 0
    /\ n_commit' = 0
    /\ batches' = <<>>
    /\ UNCHANGED img_vars
    /\ UNCHANGED <<src_catalog, dst_catalog, src_table, n_edits, dst_table, dst_committed,
                   full_done>>

\* fetch_columns (twice), fetch_primary_key_columns, conflict_target
main_fetch_columns ==
    /\ pc = "columns"
    /\ src_columns' = src_catalog
    /\ dst_columns' = dst_catalog
    /\ conflict_target' = ConflictTarget(args.id_column, PkColumns)
    /\ pc' = "map"
    /\ UNCHANGED img_vars
    /\ UNCHANGED <<src_catalog, dst_catalog, src_table, n_edits, dst_table, dst_committed, args,
                   run, mapping, missing_in_dest, cursor, batch, migrated,
                   would_migrate, ret, reported, n_exec, n_commit, batches,
                   dst_at_start, dst_before_batch, full_done, prev_full>>

main_build_mapping ==
    /\ pc = "map"
    /\ mapping' = build_mapping(src_columns, dst_columns, args.column_map,
                                ExcludeColumns(args.exclude_columns))
    /\ pc' = "force"
    /\ UNCHANGED img_vars
    /\ UNCHANGED <<src_catalog, dst_catalog, src_table, n_edits, dst_table, dst_committed, args,
                   run, src_columns, dst_columns, conflict_target, missing_in_dest,
                   cursor, batch, migrated, would_migrate, ret, reported, n_exec,
                   n_commit, batches, dst_at_start, dst_before_batch, full_done, prev_full>>

main_force_id ==
    /\ pc = "force"
    /\ mapping' = ForceIdColumn(mapping, args.id_column, src_columns, dst_columns)
    /\ pc' = "warn"
    /\ UNCHANGED img_vars
    /\ UNCHANGED <<src_catalog, dst_catalog, src_table, n_edits, dst_table, dst_committed, args,
                   run, src_columns, dst_columns, conflict_target, missing_in_dest,
                   cursor, batch, migrated, would_migrate, ret, reported, n_exec,
                   n_commit, batches, dst_at_start, dst_before_batch, full_done, prev_full>>

main_warn ==
    /\ pc = "warn"
    /\ missing_in_dest' = MissingInDest(mapping, dst_columns)
    /\ migrated' = 0
    /\ would_migrate' = 0
    /\ pc' = "select"
    /\ UNCHANGED img_vars
    /\ UNCHANGED <<src_catalog, dst_catalog, src_table, n_edits, dst_table, dst_committed, args,
                   run, src_columns, dst_columns, conflict_target, mapping, cursor,
                   batch, ret, reported, n_exec, n_commit, batches, dst_at_start,
                   dst_before_batch, full_done, prev_full>>

\* cur.execute(base_sql): the source accepts a select from a table it has (one
\* the catalog lists columns for), over columns of that table; the column list
\* may be empty
SelectOk(columns, catalog) == catalog # <<>> /\ columns \subseteq Range(catalog)

\* select_source_rows up to cur.execute(base_sql): the source rejects a table
\* it does not have and a column list that names a column the table does not have
select_execute ==
    /\ pc = "select"
    /\ cursor' = 0
    /\ pc' = IF SelectOk(Keys(mapping), src_catalog) THEN "fetch" ELSE "raise"
    /\ UNCHANGED img_vars
    /\ UNCHANGED <<src_catalog, dst_catalog, src_table, n_edits, dst_table, dst_committed, args,
                   run, src_columns, dst_columns, conflict_target, mapping,
                   missing_in_dest, batch, migrated, would_migrate, ret, reported,
                   n_exec, n_commit, batches, dst_at_start, dst_before_batch, full_done, prev_full>>

\* select_source_rows: rows = cur.fetchmany(batch_size); break or yield
select_fetchmany ==
    /\ pc = "fetch"
    /\ LET rows == FetchMany(src_table, cursor, args.batch_size) IN
         IF rows = <<>>
         THEN /\ pc' = "report"
              /\ UNCHANGED <<cursor, batch, batches, dst_before_batch>>
         ELSE /\ pc' = "upsert"
              /\ cursor' = cursor + Len(rows)
              /\ batch' = rows
              /\ batches' = Append(batches, rows)
              /\ dst_before_batch' = dst_committed
    /\ UNCHANGED img_vars
    /\ UNCHANGED <<src_catalog, dst_catalog, src_table, n_edits, dst_table, dst_committed, args,
                   run, src_columns, dst_columns, conflict_target, mapping,
                   missing_in_dest, migrated, would_migrate, ret, reported, n_exec,
                   n_commit, dst_at_start, full_done, prev_full>>

\* loop body: would_migrate += len(batch); upsert_rows(...); migrated += inserted
main_upsert ==
    /\ pc = "upsert"
    /\ would_migrate' = would_migrate + Len(batch)
    /\ LET r == upsert_rows(dst_table, mapping, batch, args.on_conflict,
                            conflict_target, args.dry_run) IN
         /\ dst_table' = r.tbl
         /\ n_exec' = n_exec + r.exec
         /\ IF r.ok
            THEN /\ ret' = r.ret
                 /\ migrated' = migrated + r.ret[1]
                 /\ pc' = "commit"
            ELSE /\ UNCHANGED <<ret, migrated>>
                 /\ pc' = "raise"
    /\ UNCHANGED img_vars
    /\ UNCHANGED <<src_catalog, dst_catalog, src_table, n_edits, dst_committed, args, run,
                   src_columns, dst_columns, conflict_target, mapping, missing_in_dest,
                   cursor, batch, reported, n_commit, batches, dst_at_start,
                   dst_before_batch, full_done, prev_full>>

\* loop tail: if not args.dry_run: dst_conn.commit()
main_commit ==
    /\ pc = "commit"
    /\ IF ~args.dry_run
       THEN /\ dst_committed' = Commit(dst_table, dst_committed)
            /\ n_commit' = n_commit + 1
       ELSE UNCHANGED <<dst_committed, n_commit>>
    /\ pc' = "fetch"
    /\ UNCHANGED img_vars
    /\ UNCHANGED <<src_catalog, dst_catalog, src_table, n_edits, dst_table, args, run,
                   src_columns, dst_columns, conflict_target, mapping, missing_in_dest,
                   cursor, batch, migrated, would_migrate, ret, reported, n_exec,
                   batches, dst_at_start, dst_before_batch, full_done, prev_full>>

\* after the loop: the count printed
main_report ==
    /\ pc = "report"
    /\ reported' = IF args.dry_run THEN would_migrate ELSE migrated
    /\ pc' = "exit"
    /\ UNCHANGED img_vars
    /\ UNCHANGED <<src_catalog, dst_catalog, src_table, n_edits, dst_table, dst_committed, args,
                   run, src_columns, dst_columns, conflict_target, mapping,
                   missing_in_dest, cursor, batch, migrated, would_migrate, ret, n_exec,
                   n_commit, batches, dst_at_start, dst_before_batch, full_done, prev_full>>

\* the with block is left normally: the connections commit and close
conn_exit ==
    /\ pc = "exit"
    /\ dst_committed' = Commit(dst_table, dst_committed)
    /\ full_done' = ~args.dry_run
    /\ pc' = "done"
    /\ UNCHANGED img_vars
    /\ UNCHANGED <<src_catalog, dst_catalog, src_table, n_edits, dst_table, args, run,
                   src_columns, dst_columns, conflict_target, mapping, missing_in_dest,
                   cursor, batch, migrated, would_migrate, ret, reported, n_exec,
                   n_commit, batches, dst_at_start, dst_before_batch, prev_full>>

\* the with block is left by an exception: the connections roll back and close,
\* and the exception leaves main
conn_exit_raise ==
    /\ pc = "raise"
    /\ dst_table' = Rollback(dst_table, dst_committed)
    /\ full_done' = FALSE
    /\ pc' = "aborted"
    /\ UNCHANGED img_vars
    /\ UNCHANGED <<src_catalog, dst_catalog, src_table, n_edits, dst_committed, args, run,
                   src_columns, dst_columns, conflict_target, mapping, missing_in_dest,
                   cursor, batch, migrated, would_migrate, ret, reported, n_exec,
                   n_commit, batches, dst_at_start, dst_before_batch, prev_full>>

\* between two runs somebody changes the values of source row i
EditSource(i) ==
    /\ pc \in {"done", "aborted"}
    /\ run = 1
    /\ n_edits < MaxEdits
    /\ n_edits' = n_edits + 1
    /\ i \in 1..Len(src_table)
    /\ src_table[i].ver = 1
    /\ src_table' = [src_table EXCEPT ![i].ver = 2]
    /\ full_done' = FALSE
    /\ UNCHANGED img_vars
    /\ UNCHANGED <<src_catalog, dst_catalog, dst_table, dst_committed, args, pc, run,
                   src_columns, dst_columns, conflict_target, mapping, missing_in_dest,
                   cursor, batch, migrated, would_migrate, ret, reported, n_exec,
                   n_commit, batches, dst_at_start, dst_before_batch, prev_full>>

---------------------------------------------------------------------------
(* main of migrate_images.py, one action per step *)

NoImgArgs == [upload_prefix |-> FALSE, dry_run |-> FALSE, skip_download |-> FALSE,
              cleanup |-> FALSE]

\* --upload-prefix given or not (--upload-url is not given), and the three flags
ImgArgs ==
    {[upload_prefix |-> u, dry_run |-> d, skip_download |-> s, cleanup |-> c] :
        u \in BOOLEAN, d \in BOOLEAN, s \in BOOLEAN, c \in BOOLEAN}

ImgInit(m, files) ==
    /\ img_rows = [k \in 1..m |-> k]
    /\ local_file = files
    /\ made_dirs = {}
    /\ received = [k \in 1..m |-> 0]
    /\ img_args = NoImgArgs
    /\ img_pc = "start"
    /\ img_run = 0
    /\ img_i = 0
    /\ total = 0
    /\ downloaded = 0
    /\ uploaded = 0
    /\ skipped_download = 0
    /\ fetch_calls = <<>>
    /\ upload_calls = <<>>
    /\ removed = {}
    /\ did_skip = {}
    /\ did_download = {}
    /\ did_upload = {}
    /\ did_fail = {}
    /\ local_at_start = files

\* ensure_prereqs, as far as the upload target goes: no SystemExit
PrereqsOk(a) == a.upload_prefix

\* mutant: run_curl that runs the process in a dry run too
CurlRuns_Always(dry_run) == TRUE

\* run_curl: the curl process is run unless dry_run
CurlRuns(dry_run) == ~dry_run

\* run_curl: the return code, given the code the process would exit with
CurlCode(dry_run, code) == IF CurlRuns(dry_run) THEN code ELSE 0

\* mutant: a curl wrapper that does not look at the return code
CurlRaises_Never(dry_run, code) == FALSE

\* download_image / upload_image: "if not dry_run and code != 0: raise"
CurlRaises(dry_run, code) == ~dry_run /\ CurlCode(dry_run, code) # 0

\* mutant: a skip that does not look for the local file
SkipsDownload_Unseen(a, exists) == a.skip_download

\* main: "if args.skip_download and os.path.exists(local_path)"
SkipsDownload(a, exists) == a.skip_download /\ exists

\* mutant: a cleanup that does not ask for --cleanup
CleanupDue_Unasked(a, exists) == ~a.dry_run /\ exists

\* main: "if args.cleanup and not args.dry_run and os.path.exists(local_path)"
CleanupDue(a, exists) == a.cleanup /\ ~a.dry_run /\ exists

\* mutant: an error that is printed where it happens, the asset going on to
\* its upload
AfterError_Proceeds == "upload"

\* mutant: an error that leaves the loop and main
AfterError_Escapes == "exited"

\* main: "except Exception as exc": the error is printed and the for loop goes
\* on with the next row
AfterError == "loop"

\* exit codes of a curl process
CurlCodes == {0, 22}

\* parse_args, ensure_prereqs and the start of main
img_parse ==
    /\ img_pc \in {"start", "done", "exited"}
    /\ img_run \in {0, 1}
    /\ \E a \in ImgArgs :
          /\ img_args' = a
          /\ img_pc' = IF PrereqsOk(a) THEN "loop" ELSE "exited"
    /\ img_run' = img_run + 1
    /\ img_i' = 0
    /\ total' = 0
    /\ downloaded' = 0
    /\ uploaded' = 0
    /\ skipped_download' = 0
    /\ fetch_calls' = <<>>
    /\ upload_calls' = <<>>
    /\ removed' = {}
    /\ did_skip' = {}
    /\ did_download' = {}
    /\ did_upload' = {}
    /\ did_fail' = {}
    /\ local_at_start' = local_file
    /\ UNCHANGED <<img_rows, local_file, made_dirs, received>>
    /\ UNCHANGED art_vars

\* for row in query_images(...): total += 1; or the end of the loop
img_next ==
    /\ img_pc = "loop"
    /\ IF img_i < Len(img_rows)
       THEN /\ img_i' = img_i + 1
            /\ total' = total + 1
            /\ img_pc' = "download"
       ELSE /\ img_pc' = "report"
            /\ UNCHANGED <<img_i, total>>
    /\ UNCHANGED <<img_rows, local_file, made_dirs, received, img_args, img_run,
                   downloaded, uploaded, skipped_download, fetch_calls, upload_calls,
                   removed, did_skip, did_download, did_upload, did_fail,
                   local_at_start>>
    /\ UNCHANGED art_vars

\* the download step of the try block.  A fetch that fails may leave a partial
\* file behind; an exception goes to the except clause, which prints it.
img_download ==
    /\ img_pc = "download"
    /\ LET k == img_rows[img_i] IN
         IF SkipsDownload(img_args, local_file[k])
         THEN /\ skipped_download' = skipped_download + 1
              /\ did_skip' = did_skip \cup {k}
              /\ img_pc' = "upload"
              /\ UNCHANGED <<local_file, made_dirs, downloaded, fetch_calls,
                             did_download, did_fail>>
         ELSE /\ made_dirs' = made_dirs \cup {k}
              /\ fetch_calls' = IF CurlRuns(img_args.dry_run)
                                THEN Append(fetch_calls, k) ELSE fetch_calls
              /\ \E code \in CurlCodes, partial \in BOOLEAN :
                    IF CurlRaises(img_args.dry_run, code)
                    THEN /\ local_file' = [local_file EXCEPT ![k] = @ \/ partial]
                         /\ did_fail' = did_fail \cup {k}
                         /\ img_pc' = AfterError
                         /\ UNCHANGED <<downloaded, did_download>>
                    ELSE /\ local_file' = [local_file EXCEPT
                                   ![k] = @ \/ (CurlRuns(img_args.dry_run) /\ code = 0)]
                         /\ downloaded' = downloaded + 1
                         /\ did_download' = did_download \cup {k}
                         /\ img_pc' = "upload"
                         /\ UNCHANGED did_fail
              /\ UNCHANGED <<skipped_download, did_skip>>
    /\ UNCHANGED <<img_rows, received, img_args, img_run, img_i, total, uploaded,
                   upload_calls, removed, did_upload, local_at_start>>
    /\ UNCHANGED art_vars

\* resolve_upload_url and upload_image; uploaded += 1
img_upload ==
    /\ img_pc = "upload"
    /\ LET k == img_rows[img_i] IN
         /\ upload_calls' = IF CurlRuns(img_args.dry_run)
                            THEN Append(upload_calls, k) ELSE upload_calls
         /\ \E code \in CurlCodes :
               IF CurlRaises(img_args.dry_run, code)
               THEN /\ did_fail' = did_fail \cup {k}
                    /\ img_pc' = AfterError
                    /\ UNCHANGED <<uploaded, did_upload, received>>
               ELSE /\ uploaded' = uploaded + 1
                    /\ did_upload' = did_upload \cup {k}
                    /\ received' = IF CurlRuns(img_args.dry_run) /\ code = 0
                                   THEN [received EXCEPT ![k] = @ + 1] ELSE received
                    /\ img_pc' = "cleanup"
                    /\ UNCHANGED did_fail
    /\ UNCHANGED <<img_rows, local_file, made_dirs, img_args, img_run, img_i, total,
                   downloaded, skipped_download, fetch_calls, removed, did_skip,
                   did_download, local_at_start>>
    /\ UNCHANGED art_vars

\* best-effort cleanup: os.remove may raise OSError, which is ignored
img_cleanup ==
    /\ img_pc = "cleanup"
    /\ LET k == img_rows[img_i] IN
         IF CleanupDue(img_args, local_file[k])
         THEN \E oserror \in BOOLEAN :
                 IF oserror
                 THEN UNCHANGED <<local_file, removed>>
                 ELSE /\ local_file' = [local_file EXCEPT ![k] = FALSE]
                      /\ removed' = removed \cup {k}
         ELSE UNCHANGED <<local_file, removed>>
    /\ img_pc' = "loop"
    /\ UNCHANGED <<img_rows, made_dirs, received, img_args, img_run, img_i, total,
                   downloaded, uploaded, skipped_download, fetch_calls, upload_calls,
                   did_skip, did_download, did_upload, did_fail, local_at_start>>
    /\ UNCHANGED art_vars

\* after the loop: the summary is printed and main returns
img_report ==
    /\ img_pc = "report"
    /\ img_pc' = "done"
    /\ UNCHANGED <<img_rows, local_file, made_dirs, received, img_args, img_run, img_i,
                   total, downloaded, uploaded, skipped_download, fetch_calls,
                   upload_calls, removed, did_skip, did_download, did_upload, did_fail,
                   local_at_start>>
    /\ UNCHANGED art_vars

---------------------------------------------------------------------------
(* Inputs *)

ColumnUniverse == <<ID, ColA, ColB>>

\* a catalog listing the columns of S, in ordinal order
CatalogOf(S) == SelectSeq(ColumnUniverse, LAMBDA c : c \in S)

Entry(s, d) == [src |-> s, dst |-> d]

\* JSON objects of at most n entries over the column universe (keys distinct)
RECURSIVE ColumnMaps(_)
ColumnMaps(n) ==
    IF n = 0 THEN {<<>>}
    ELSE ColumnMaps(n - 1) \cup
         {Append(m, Entry(s, d)) :
             m \in {x \in ColumnMaps(n - 1) : Len(x) = n - 1},
             s \in Range(ColumnUniverse), d \in Range(ColumnUniverse)}

DistinctKeys(m) == \A i, j \in 1..Len(m) : m[i].src = m[j].src => i = j

\* values of --exclude-columns: "", "id", " a ,,b", "id, a"
ExcludeArgs ==
    {<<>>, ID, <<" ", "a", " ", ",", ",", "b">>, <<"i", "d", ",", " ", "a">>}

MapperArgs ==
    {[exclude_columns |-> x, column_map |-> m, id_column |-> i,
      batch_size |-> 1, on_conflict |-> "skip", dry_run |-> FALSE] :
        x \in ExcludeArgs,
        m \in {e \in ColumnMaps(MaxExplicit) : DistinctKeys(e)},
        i \in {ID, ColA}}

\* (--exclude-columns, --column-map) of the migration runs:
\* ("", none), ("a", none), ("a", {"b": "c"}), ("", {"x": "c"})
RunMappings ==
    {<<<<>>, <<>>>>, <<ColA, <<>>>>, <<ColA, <<Entry(ColB, ColC)>>>>,
     <<<<>>, <<Entry(ColX, ColC)>>>>}

RunArgs ==
    {[exclude_columns |-> xm[1], column_map |-> xm[2], id_column |-> ID,
      batch_size |-> n, on_conflict |-> p, dry_run |-> d] :
        xm \in RunMappings, n \in 1..MaxBatch, p \in Policies, d \in BOOLEAN}

\* the source table: rows 1..m, each at version 1
SourceRows(m) == [i \in 1..m |-> [id |-> i, ver |-> 1]]

\* the destination table before the first run: the rows of S
RECURSIVE PriorRows(_)
PriorRows(S) ==
    IF S = {} THEN <<>>
    ELSE LET i == CHOOSE x \in S : \A y \in S : x >= y
         IN  Append(PriorRows(S \ {i}), PriorRow(i))

---------------------------------------------------------------------------
(* Specifications *)

\* the column mapper over every pair of schemas and every argument drawn
InitMap ==
    /\ \E S \in SUBSET Range(ColumnUniverse), D \in SUBSET Range(ColumnUniverse) :
          ArtInit(CatalogOf(S), CatalogOf(D), <<>>, <<>>)
    /\ ImgInit(0, <<>>)

NextMap ==
    \/ main_parse(MapperArgs)
    \/ main_fetch_columns
    \/ main_build_mapping
    \/ main_force_id
    \/ main_warn

SpecMap == InitMap /\ [][NextMap]_vars

\* runs of the record migration between two fixed tables
Init ==
    /\ \E m \in 0..MaxRows, S \in SUBSET (1..MaxRows) :
          ArtInit(SrcSchema, DstSchema, SourceRows(m), PriorRows(S))
    /\ ImgInit(0, <<>>)

Next ==
    \/ main_parse(RunArgs)
    \/ main_fetch_columns
    \/ main_build_mapping
    \/ main_force_id
    \/ main_warn
    \/ select_execute
    \/ select_fetchmany
    \/ main_upsert
    \/ main_commit
    \/ main_report
    \/ conn_exit
    \/ conn_exit_raise
    \/ \E i \in 1..MaxRows : EditSource(i)

Spec == Init /\ [][Next]_vars

\* runs of the record migration where the source table, the destination table
\* or both are missing: fetch_columns finds no column for a missing table, a
\* missing table holds no rows
InitLookup ==
    /\ \E src_there \in BOOLEAN, dst_there \in BOOLEAN :
          /\ ~(src_there /\ dst_there)
          /\ \E m \in 0..MaxRows, S \in SUBSET (1..MaxRows) :
                /\ ~src_there => m = 0
                /\ ~dst_there => S = {}
                /\ ArtInit(IF src_there THEN SrcSchema ELSE <<>>,
                           IF dst_there THEN DstSchema ELSE <<>>,
                           SourceRows(m), PriorRows(S))
    /\ ImgInit(0, <<>>)

SpecLookup == InitLookup /\ [][Next]_vars

\* runs of the asset transfer over a list of assets, some already on disk
InitImg ==
    /\ ArtInit(<<>>, <<>>, <<>>, <<>>)
    /\ \E m \in 0..MaxAssets : \E files \in [1..m -> BOOLEAN] : ImgInit(m, files)

NextImg ==
    \/ img_parse
    \/ img_next
    \/ img_download
    \/ img_upload
    \/ img_cleanup
    \/ img_report

SpecImg == InitImg /\ [][NextImg]_vars

\* one run of the asset transfer
NextImgOnce == NextImg /\ img_run' = 1

\* one run by a process that keeps taking steps: every call main makes (a
\* query row, a curl process, os.remove) returns
FairSpecImg == InitImg /\ [][NextImgOnce]_vars /\ WF_vars(NextImgOnce)

---------------------------------------------------------------------------
(* Properties of the column mapper, checked under SpecMap *)

\* the mapping is final once main has passed the forced id-column addition
MappingFinal == pc \notin {"start", "columns", "map", "force"}

\* main has computed missing_in_dest
WarnComputed == pc \notin {"start", "columns", "map", "force", "warn"}

\* the configured exclude set
ConfiguredExcludes == ExcludeSet(ExcludeColumns(args.exclude_columns))

\* C1: every value of the final column mapping is a column of the destination
\* schema, and the "mapped columns not found in destination" list is empty.
C1_ValuesInDestination ==
    /\ MappingFinal => Values(mapping) \subseteq Range(dst_catalog)
    /\ WarnComputed => missing_in_dest = <<>>

\* an explicit entry naming a column the destination lacks was dropped, others kept
C1_Witness ==
    /\ pc = "select"
    /\ mapping # <<>>
    /\ \E i \in 1..Len(args.column_map) :
          /\ args.column_map[i].dst \notin Range(dst_catalog)
          /\ args.column_map[i].src \notin ConfiguredExcludes

\* C2 as stated: no column of the configured exclude set is a key of the final
\* column mapping, also when the id column itself is excluded.
C2_NoExcludedKey ==
    MappingFinal => Keys(mapping) \cap ConfiguredExcludes = {}

\* C2 amended: build_mapping returns no excluded key; in the final mapping the
\* only excluded column that can be a key is the id column, force-added as
\* id -> id when it is in both schemas.
C2_NoExcludedKeyButId ==
    /\ pc = "force" => Keys(mapping) \cap ConfiguredExcludes = {}
    /\ MappingFinal =>
          \A k \in Keys(mapping) \cap ConfiguredExcludes :
              /\ k = args.id_column
              /\ k \in Range(src_catalog) /\ k \in Range(dst_catalog)
              /\ Lookup(mapping, k) = k

\* column a is excluded and left out although both schemas have it, while the
\* excluded id column is a key
C2_Witness ==
    /\ pc = "select"
    /\ ColA \in ConfiguredExcludes
    /\ ColA \in Range(src_catalog) /\ ColA \in Range(dst_catalog)
    /\ ColA \notin Keys(mapping)
    /\ ID \in ConfiguredExcludes
    /\ ID \in Keys(mapping)

\* what build_mapping returned in this run
Built == build_mapping(src_columns, dst_columns, args.column_map,
                       ExcludeColumns(args.exclude_columns))

\* C3: when the configured id column is in both column lists it is a key of
\* the final column mapping, whatever the explicit map and the exclude set
\* hold; it is mapped id -> id when build_mapping left it out.
C3_IdColumnKept ==
    (/\ MappingFinal
     /\ args.id_column \in Range(src_catalog)
     /\ args.id_column \in Range(dst_catalog))
    => /\ args.id_column \in Keys(mapping)
       /\ args.id_column \notin Keys(Built) =>
              Lookup(mapping, args.id_column) = args.id_column

\* the id column is excluded, its explicit entry was skipped, and it is mapped id -> id
C3_Witness ==
    /\ pc = "select"
    /\ args.id_column \in ConfiguredExcludes
    /\ \E i \in 1..Len(args.column_map) :
          /\ args.column_map[i].src = args.id_column
          /\ args.column_map[i].dst # args.id_column
          /\ args.column_map[i].dst \in Range(dst_catalog)
    /\ args.id_column \in Keys(mapping)
    /\ Lookup(mapping, args.id_column) = args.id_column

\* C4 as stated: every key of the final column mapping is a column of the
\* source schema.
C4_KeysInSource ==
    MappingFinal => Keys(mapping) \subseteq Range(src_catalog)

---------------------------------------------------------------------------
(* Properties of the migration runs, checked under Spec *)

InRun == run >= 1 /\ pc # "start"

Ids(tbl) == {tbl[i][ID] : i \in 1..Len(tbl)}

OnePerIdentity(tbl) == \A i, j \in 1..Len(tbl) : tbl[i][ID] = tbl[j][ID] => i = j

RECURSIVE Concat(_)
Concat(ss) == IF ss = <<>> THEN <<>> ELSE Head(ss) \o Concat(Tail(ss))

CeilDiv(m, n) == (m + n - 1) \div n

\* C5: in a dry run nothing is executed or committed on the destination, the
\* destination table never changes, upsert_rows returns (0, 0), and the count
\* reported at the end is the number of source rows read.
C5_DryRunWritesNothing ==
    (InRun /\ args.dry_run) =>
        /\ n_exec = 0
        /\ n_commit = 0
        /\ dst_table = dst_at_start
        /\ dst_committed = dst_at_start
        /\ ret = <<0, 0>>
        /\ pc \in {"exit", "done"} => reported = Len(src_table)

\* a dry run under the error policy over rows that conflict, in two batches, has ended
C5_Witness ==
    /\ pc = "done"
    /\ args.dry_run
    /\ args.on_conflict = "error"
    /\ Len(batches) = 2
    /\ reported = 3
    /\ \E i \in 1..Len(src_table) : IdVal(src_table[i].id) \in Ids(dst_committed)

\* C7: select_source_rows yields ceil(M/N) batches in source order, each of 1..N
\* rows and all but the last of N rows, whose concatenation is the source rows.
C7_Batches ==
    (InRun /\ pc \notin {"done", "aborted"}) =>
        /\ Concat(batches) = SubSeq(src_table, 1, cursor)
        /\ \A k \in 1..Len(batches) :
              /\ Len(batches[k]) >= 1
              /\ Len(batches[k]) <= args.batch_size
              /\ k < Len(batches) => Len(batches[k]) = args.batch_size
        /\ pc \in {"report", "exit"} =>
              /\ Len(batches) = CeilDiv(Len(src_table), args.batch_size)
              /\ Concat(batches) = src_table

\* three rows were streamed in batches of two and the cursor is exhausted
C7_Witness ==
    /\ pc = "report"
    /\ Len(src_table) = 3
    /\ args.batch_size = 2
    /\ Len(batches) = 2
    /\ Len(batches[2]) = 1

\* C8: under the skip policy, a second run over an unchanged source after a
\* full run leaves the destination as that run left it, one row per identity.
C8_SkipRerunChangesNothing ==
    (run = 2 /\ prev_full /\ args.on_conflict = "skip") =>
        /\ dst_table = dst_at_start
        /\ dst_committed = dst_at_start
        /\ OnePerIdentity(dst_committed)
        /\ \A i \in 1..Len(src_table) : IdVal(src_table[i].id) \in Ids(dst_committed)

\* the second run wrote its batches and ended
C8_Witness ==
    /\ run = 2 /\ prev_full /\ args.on_conflict = "skip" /\ ~args.dry_run
    /\ pc = "done"
    /\ n_exec >= 2
    /\ Len(src_table) = 3
    /\ \E i \in 1..Len(dst_committed) : dst_committed[i][ColA] = OldVal(1)

\* the mapped destination columns outside the conflict target
UpdatedColumns == {c \in Values(mapping) : c \notin Range(conflict_target)}

\* the source column mapped to destination column c
SourceOf(c) == mapping[CHOOSE i \in 1..Len(mapping) : mapping[i].dst = c].src

\* C9: after a re-run under the update policy the destination holds one row
\* per identity; the row of every source row holds the incoming value in each
\* mapped column outside the conflict target; rows that were there keep their
\* place, their conflict-target columns and their unmapped columns.
C9_UpdateReplaces ==
    (run = 2 /\ args.on_conflict = "update" /\ ~args.dry_run /\ pc \in {"exit", "done"}) =>
        /\ OnePerIdentity(dst_committed)
        /\ \A i \in 1..Len(src_table) :
              \E j \in 1..Len(dst_committed) :
                  /\ dst_committed[j][ID] = IdVal(src_table[i].id)
                  /\ \A c \in UpdatedColumns :
                        dst_committed[j][c] = Field(src_table[i], SourceOf(c))
        /\ Len(dst_committed) >= Len(dst_at_start)
        /\ \A j \in 1..Len(dst_at_start) :
              \A c \in Range(DstSchema) \ UpdatedColumns :
                  dst_committed[j][c] = dst_at_start[j][c]

\* a re-run under update has replaced the values of an edited row that the
\* destination already held, and left an unmapped column of it alone
C9_Witness ==
    /\ run = 2 /\ args.on_conflict = "update" /\ ~args.dry_run
    /\ pc = "done"
    /\ n_edits >= 1
    /\ Len(src_table) >= 2
    /\ \E j \in 1..Len(dst_at_start) :
          /\ dst_at_start[j][ColA] = OldVal(dst_at_start[j][ID].n)
          /\ dst_committed[j][ColA].ver = 2
          /\ dst_committed[j][ColC] = dst_at_start[j][ColC]

\* C10: under the error policy a batch holding a row whose conflict-target
\* values are already in the destination is not committed, in whole: the
\* upsert raises, nothing of the batch is committed, the session is rolled
\* back, and the exception leaves main.
C10_ErrorBatchAtomic ==
    (InRun /\ args.on_conflict = "error" /\ ~args.dry_run) =>
        /\ pc = "commit" =>
              \A i \in 1..Len(batch) : IdVal(batch[i].id) \notin Ids(dst_before_batch)
        /\ pc \in {"raise", "aborted"} => dst_committed = dst_before_batch
        /\ pc = "aborted" => dst_table = dst_committed

\* a batch of two whose second row conflicts has failed and left nothing behind
C10_Witness ==
    /\ pc = "aborted"
    /\ args.on_conflict = "error" /\ ~args.dry_run
    /\ n_exec >= 1
    /\ Len(batch) = 2
    /\ IdVal(batch[1].id) \notin Ids(dst_committed)
    /\ IdVal(batch[2].id) \in Ids(dst_committed)

---------------------------------------------------------------------------
(* Properties of the asset transfer runs, checked under SpecImg *)

InImgRun == img_run >= 1 /\ img_pc \notin {"start", "exited"}

\* the assets the for loop has taken so far in this run
Taken == {img_rows[j] : j \in 1..img_i}

\* the for loop is between two assets, or past the last
BetweenAssets == img_pc \in {"loop", "report", "done"}

\* C6: in a dry run no fetch and no upload process is run and no local file
\* is deleted (or written), also with cleanup enabled; every asset is counted
\* as processed and as uploaded, and every asset whose download is not
\* skipped is counted as downloaded.
C6_DryRunTransfersNothing ==
    (InImgRun /\ img_args.dry_run) =>
        /\ fetch_calls = <<>>
        /\ upload_calls = <<>>
        /\ removed = {}
        /\ local_file = local_at_start
        /\ did_fail = {}
        /\ total = img_i
        /\ BetweenAssets =>
              /\ uploaded = total
              /\ did_upload = Taken
              /\ did_download = Taken \ did_skip
              /\ downloaded = Cardinality(Taken \ did_skip)
              /\ skipped_download = Cardinality(did_skip)

\* a dry run with cleanup and skip-download over three assets, one of them on
\* disk, has ended
C6_Witness ==
    /\ img_pc = "done"
    /\ img_args.dry_run /\ img_args.cleanup /\ img_args.skip_download
    /\ total = 3 /\ uploaded = 3 /\ downloaded = 2 /\ skipped_download = 1
    /\ \E k \in 1..3 : local_file[k]

---------------------------------------------------------------------------
(* Counts, commits and order of the migration runs, checked under Spec *)

\* the rows of batch b whose conflict-target value tbl does not hold
NewIn(b, tbl) == {i \in 1..Len(b) : IdVal(b[i].id) \notin Ids(tbl)}

\* C11 as stated: under the skip policy the inserted count upsert_rows returns
\* for a batch is the number of rows of the batch that were new in the
\* destination, and a second full run over an unchanged source reports 0.
C11_SkipCountsNewRows ==
    (InRun /\ args.on_conflict = "skip" /\ ~args.dry_run) =>
        /\ pc = "commit" => ret[1] = Cardinality(NewIn(batch, dst_before_batch))
        /\ (run = 2 /\ prev_full /\ pc \in {"exit", "done"}) => reported = 0

\* the rows of the destination session that are not committed belong to the
\* batch the loop holds
OnlyBatchPending ==
    /\ Len(dst_table) >= Len(dst_committed)
    /\ \A j \in 1..Len(dst_table) :
          (j > Len(dst_committed) \/ dst_table[j] # dst_committed[j]) =>
              \E i \in 1..Len(batch) : dst_table[j][ID] = IdVal(batch[i].id)

\* C12: in a run that is not a dry run every batch is committed once, after
\* its executemany and before the next one: between batches the commits, the
\* executemany calls and the batches yielded are equal in number and nothing
\* is pending; after a batch's executemany exactly that batch is pending.
C12_OneCommitPerBatch ==
    (InRun /\ ~args.dry_run) =>
        /\ n_commit <= n_exec /\ n_exec <= n_commit + 1
        /\ pc \in {"fetch", "report", "exit", "done"} =>
              /\ n_commit = Len(batches) /\ n_exec = Len(batches)
              /\ dst_table = dst_committed
        /\ pc = "upsert" =>
              /\ n_commit = Len(batches) - 1 /\ n_exec = Len(batches) - 1
              /\ dst_table = dst_committed
        /\ pc = "commit" =>
              /\ n_commit = Len(batches) - 1 /\ n_exec = Len(batches)
              /\ OnlyBatchPending
        /\ pc \in {"raise", "aborted"} =>
              /\ n_commit = (IF batches = <<>> THEN 0 ELSE Len(batches) - 1)
              /\ dst_committed = dst_before_batch

\* the second batch of two has been written and is not committed yet, the
\* first one is
C12_Witness ==
    /\ pc = "commit" /\ ~args.dry_run
    /\ Len(batches) = 2 /\ n_exec = 2 /\ n_commit = 1
    /\ dst_table # dst_committed
    /\ dst_committed # dst_at_start

---------------------------------------------------------------------------
(* Steps and outcomes of the asset transfer runs, checked under SpecImg and,
   for termination, under FairSpecImg *)

\* the assets of this run whose download step is over
PastDownload == {k \in Taken : k # img_rows[img_i] \/ img_pc # "download"}

\* the assets of this run whose upload step is over
PastUpload == {k \in Taken : k # img_rows[img_i] \/ img_pc \notin {"download", "upload"}}

\* the assets of this run whose upload_image call was made
UploadAttempted == did_upload \cup (did_fail \cap (did_download \cup did_skip))

StrictlyIncreasing(s) == \A i, j \in 1..Len(s) : i < j => s[i] < s[j]

\* every asset is taken once and in order, each one taken ends as uploaded or
\* as failed, and only ensure_prereqs ends a process before its summary
EveryAssetOnce ==
    /\ InImgRun =>
          /\ total = img_i
          /\ Taken = 1..img_i
          /\ StrictlyIncreasing(fetch_calls) /\ StrictlyIncreasing(upload_calls)
          /\ Range(fetch_calls) \cup Range(upload_calls) \subseteq Taken
          /\ did_download \cup did_skip \cup did_upload \cup did_fail \subseteq Taken
          /\ BetweenAssets => did_upload \cup did_fail = Taken
          /\ img_pc \in {"report", "done"} => total = Len(img_rows)
    /\ (img_run >= 1 /\ img_pc = "exited") => (~PrereqsOk(img_args) /\ total = 0)

\* C14: whatever downloads and uploads fail, every asset query_images yields
\* is processed once, in order, no error leaves the per-asset loop, and the
\* run goes on to its normal end.
C14_FailuresIsolated ==
    /\ []EveryAssetOnce
    /\ (InImgRun /\ img_pc # "done") ~> (img_pc = "done")

\* a run over three assets has ended after a failed download, then a failed
\* upload, then a successful upload
C14_Witness ==
    /\ img_pc = "done" /\ total = 3
    /\ 1 \in did_fail /\ 1 \notin did_download \cup did_skip
    /\ 2 \in did_fail /\ 2 \in did_download
    /\ 3 \in did_upload /\ received[3] >= 1

\* the assets of this run whose download_image call raised
DownloadFailed == did_fail \ (did_download \cup did_skip)

\* C15: an upload is attempted only for an asset whose download succeeded or
\* was skipped over an existing local file; an asset whose download failed is
\* not uploaded and ends as failed; an asset is counted as uploaded only when
\* its upload call succeeded; every asset ends as exactly one of done, failed.
C15_UploadAfterDownload ==
    InImgRun =>
        /\ img_pc \in {"upload", "cleanup"} =>
              img_rows[img_i] \in did_download \cup did_skip
        /\ did_download \cap did_skip = {}
        /\ \A k \in did_skip : local_at_start[k]
        /\ ~img_args.dry_run => \A k \in did_download : k \in Range(fetch_calls)
        /\ Range(upload_calls) \subseteq did_download \cup did_skip
        /\ did_upload \subseteq did_download \cup did_skip
        /\ \A k \in DownloadFailed :
              k \notin Range(upload_calls) /\ k \notin did_upload /\ k \in did_fail
        /\ uploaded = Cardinality(did_upload)
        /\ ~img_args.dry_run =>
              \A k \in did_upload : k \in Range(upload_calls) /\ received[k] >= 1
        /\ did_upload \cap did_fail = {}
        /\ BetweenAssets => did_upload \cup did_fail = Taken

\* a run has ended in which one asset failed to download and was not
\* uploaded, one was downloaded and failed to upload, and one was uploaded
C15_Witness ==
    /\ img_pc = "done" /\ ~img_args.dry_run
    /\ DownloadFailed # {}
    /\ \E k \in did_download : k \in did_fail /\ k \in Range(upload_calls)
    /\ uploaded = 1
    /\ Len(upload_calls) = 2

\* C16: a local file is removed only with cleanup enabled, outside a dry run
\* and after that asset's upload succeeded; a file that was there stays unless
\* removed, a downloaded file stays when the upload fails or cleanup is
\* disabled, and an error of os.remove neither fails the asset nor ends the run.
C16_CleanupOnlyAfterUpload ==
    InImgRun =>
        /\ removed \subseteq did_upload
        /\ removed # {} => (img_args.cleanup /\ ~img_args.dry_run)
        /\ \A k \in 1..Len(img_rows) :
              /\ (local_at_start[k] /\ k \notin removed) => local_file[k]
              /\ k \in did_fail => k \notin removed
              /\ (k \in did_download /\ ~img_args.dry_run /\ k \notin removed) =>
                    local_file[k]
        /\ \A k \in did_upload \ removed : k \notin did_fail

\* with cleanup enabled, os.remove failed for an uploaded asset whose file is
\* still there, a later asset's file was removed, the file of an asset whose
\* upload failed was kept, and the run has ended
C16_Witness ==
    /\ img_pc = "done"
    /\ img_args.cleanup /\ ~img_args.dry_run
    /\ \E k \in did_upload \ removed :
          /\ local_file[k]
          /\ \E j \in removed : j > k /\ ~local_file[j]
    /\ \E k \in did_fail : k \in did_download /\ local_file[k]

\* C18 as stated: once the destination has accepted an upload of an asset, no
\* further upload is issued for that asset, in this run or in a re-run, so the
\* destination receives every asset at most once.
C18_RerunUploadsNothing ==
    [][\A k \in 1..Len(img_rows) :
          received[k] >= 1 =>
              /\ received'[k] = received[k]
              /\ \/ upload_calls' = upload_calls
                 \/ upload_calls' = <<>>
                 \/ upload_calls'[Len(upload_calls')] # k]_vars

---------------------------------------------------------------------------
(* Missing tables, checked under SpecLookup *)

\* C17 as stated: when the column query finds no column for the source or the
\* destination table the run aborts at once: no source row is read, nothing is
\* executed or committed on the destination, and the run does not complete.
C17_MissingTableAborts ==
    (InRun /\ (src_catalog = <<>> \/ dst_catalog = <<>>)) =>
        /\ cursor = 0 /\ batches = <<>>
        /\ n_exec = 0 /\ n_commit = 0
        /\ pc \notin {"report", "exit", "done"}

---------------------------------------------------------------------------
(* Order of fetches and writes, and failed batches, checked under Spec *)

\* the loop holds the batch yielded last, of at most batch_size rows, and every
\* row fetched before it has been handed to upsert_rows
OneBatchHeld ==
    (InRun /\ pc \in {"fetch", "upsert", "commit", "report", "exit"}) =>
        /\ batches # <<>> => batch = batches[Len(batches)]
        /\ Len(batch) <= args.batch_size
        /\ cursor = Len(Concat(batches))
        /\ would_migrate = (IF pc = "upsert" THEN cursor - Len(batch) ELSE cursor)

\* a batch is fetched only when every batch before it has been handed to
\* upsert_rows and, outside a dry run, executed and committed
FetchAfterCommit ==
    Len(batches') = Len(batches) + 1 =>
        /\ pc = "fetch" /\ pc' = "upsert"
        /\ would_migrate = cursor
        /\ ~args.dry_run =>
              /\ n_exec = Len(batches) /\ n_commit = Len(batches)
              /\ dst_table = dst_committed

\* a batch is written only when it is the batch fetched last and every batch
\* before it is committed
WriteAfterFetch ==
    n_exec' = n_exec + 1 =>
        /\ pc = "upsert"
        /\ n_exec = Len(batches) - 1 /\ n_commit = Len(batches) - 1
        /\ batch = batches[Len(batches)]

\* C19: the record path holds one batch at a time; batch k+1 is fetched only
\* after batch k was handed to upsert_rows and, when not in a dry run, executed
\* and committed; fetches and destination writes alternate in batch order.
C19_OneBatchAtATime ==
    /\ []OneBatchHeld
    /\ [][FetchAfterCommit /\ WriteAfterFetch]_vars

\* the second batch of a run that writes is being fetched after the first was
\* committed
C19_Witness ==
    /\ pc = "upsert" /\ ~args.dry_run
    /\ Len(batches) = 2 /\ n_commit = 1 /\ n_exec = 1
    /\ dst_committed # dst_at_start
    /\ args.batch_size = 2 /\ Len(batch) = 1

\* the row upsert_rows builds from source row r
RowOf(r) == NewRow(DstCols(mapping), RowValues(mapping, r))

\* the rows of the batches before the last one yielded
EarlierRows == Concat(SubSeq(batches, 1, Len(batches) - 1))

\* C20: when a batch fails under the error policy the run stops: the batches
\* before it stay committed, the failed batch leaves nothing, no later batch
\* is fetched, written or committed, and the destination holds its prior
\* content followed by the rows of the earlier batches.
C20_EarlierBatchesKept ==
    (InRun /\ args.on_conflict = "error" /\ ~args.dry_run
           /\ pc \in {"raise", "aborted"} /\ batches # <<>>) =>
        /\ dst_committed = dst_at_start \o [i \in 1..Len(EarlierRows) |-> RowOf(EarlierRows[i])]
        /\ pc = "aborted" => dst_table = dst_committed
        /\ n_exec = Len(batches) /\ n_commit = Len(batches) - 1
        /\ cursor = Len(Concat(batches))
        /\ batch = batches[Len(batches)]
        /\ \E i \in 1..Len(batch) : IdVal(batch[i].id) \in Ids(dst_committed)

\* the second batch failed on a conflict after the first batch, a new row, was
\* committed, and a source row was never fetched
C20_Witness ==
    /\ pc = "aborted"
    /\ args.on_conflict = "error" /\ ~args.dry_run
    /\ Len(batches) = 2 /\ n_commit = 1
    /\ Len(dst_committed) = Len(dst_at_start) + 1
    /\ cursor < Len(src_table)

---------------------------------------------------------------------------
(* Counters of the asset transfer runs, checked under SpecImg *)

\* C21: the counters of an asset run stay consistent: uploaded <= downloaded +
\* skipped_download <= total, total is the number of assets read so far, after
\* every asset downloaded + skipped_download is total less the download
\* failures and total - uploaded is the number of assets that failed.
C21_CountersConsistent ==
    InImgRun =>
        /\ uploaded <= downloaded + skipped_download
        /\ downloaded + skipped_download <= total
        /\ total = img_i
        /\ total = Cardinality(Taken)
        /\ BetweenAssets =>
              /\ downloaded + skipped_download = total - Cardinality(DownloadFailed)
              /\ total - uploaded = Cardinality(did_fail)
              /\ uploaded = Cardinality(Taken \ did_fail)

\* a run over three assets has ended with one skipped, one downloaded, one
\* uploaded, a failed download and a failed upload
C21_Witness ==
    /\ img_pc = "done" /\ ~img_args.dry_run
    /\ total = 3 /\ downloaded = 1 /\ skipped_download = 1 /\ uploaded = 1
    /\ Cardinality(did_fail) = 2
    /\ Cardinality(DownloadFailed) = 1

---------------------------------------------------------------------------
(* Injectivity of the column mapping, checked under SpecMap *)

\* C22 as stated: the final column mapping is injective: no two source
\* columns are mapped to the same destination column, so the insert built
\* from it lists no destination column twice.
C22_MappingInjective ==
    MappingFinal =>
        /\ \A i, j \in 1..Len(mapping) : mapping[i].dst = mapping[j].dst => i = j
        /\ NoDuplicates(DstCols(mapping))

====
